---- MODULE Spec2Model ----
(***************************************************************************)
(* Rules engine of "Cpu-aergere-dich-nicht": GameState (lib) driven by     *)
(* Game.step (ui.ts).  One ply = one call of GameState.nextMove.           *)
(***************************************************************************)
EXTENDS Integers, Sequences, FiniteSets, TLC

\* ---------------------------------------------------------------- bounds
NumPlayers == 2
BoardSize == 4
MaxPlies == 5
RandomGrain == 12

\* plies the browser driver begins after the opening
MaxUiPlies == 3

\* ------------------------------------------------------------- constants
First == 0
Reroll == 1
ReserveEscape == 2

TurnStates == {First, Reroll, ReserveEscape}

NoPlayer == -1

NoMove == [piece |-> -1]

NoCapture == [player |-> -1]

PlayerIdx == 0 .. (NumPlayers - 1)

PieceIdx == 0 .. 3

\* PiecePosition: section and index
PiecePosition(index, section) == [section |-> section, index |-> index]

\* the board ring: every player's path walks the whole ring from its own
\* start chip to its goal chip (ui.ts derives it from the markup)
StartChip(p) == (p * BoardSize) \div NumPlayers

playerPaths == [p \in PlayerIdx |-> [k \in 0 .. (BoardSize - 1) |-> (StartChip(p) + k) % BoardSize]]

\* ------------------------------------------------------------------ state
VARIABLES pieces, turnState, i, rolled, picked, captured, winner, hist, forced, plies,
          events

\* Game and the manual strategy of ui.ts: Game._running, the pending
\* setTimeout(runner) timers, Game.nextMoveTimeout (0 for null), the nextMove
\* calls suspended in getNextMove, and the waitingForInput map in insertion
\* order
VARIABLES running, timers, nextMoveTimeout, inflight, waitingForInput

uiVars == <<running, timers, nextMoveTimeout, inflight, waitingForInput>>

vars == <<pieces, turnState, i, rolled, picked, captured, winner, hist, forced, plies,
          events, running, timers, nextMoveTimeout, inflight, waitingForInput>>

\* ---------------------------------------------------------------- helpers
\* Array.prototype.filter over the four pieces, as the ascending sequence of
\* the piece slots whose position is in the given section
RECURSIVE FilterFrom(_, _, _)
FilterFrom(ps, section, n) ==
  IF n > 3 THEN <<>>
  ELSE (IF ps[n].section = section THEN <<n>> ELSE <<>>) \o FilterFrom(ps, section, n + 1)

Filter(ps, section) == FilterFrom(ps, section, 0)

\* path.findIndex(pathPiece => pathPiece === index)
RECURSIVE FindIndexFrom(_, _, _)
FindIndexFrom(path, index, k) ==
  IF k >= Cardinality(DOMAIN path) THEN -1
  ELSE IF path[k] = index THEN k
  ELSE FindIndexFrom(path, index, k + 1)

FindIndex(path, index) == FindIndexFrom(path, index, 0)

\* throwD6: floor(random * 6) is 0..5
ThrowD6(d6) == IF d6 = 6 THEN 6 ELSE d6 + 1

\* variants of the transition: Reroll tested before the six; a stalled
\* player gets no bonus attempt; a six grants only one extra roll
NewTurnState_RerollFirst(S, r, nOnField) ==
  IF S = Reroll THEN First
  ELSE IF r = 6 THEN Reroll
  ELSE IF S = ReserveEscape THEN Reroll
  ELSE IF nOnField = 0 THEN ReserveEscape
  ELSE S

NewTurnState_NoBonus(S, r, nOnField) ==
  IF r = 6 THEN Reroll
  ELSE IF S = Reroll THEN First
  ELSE IF S = ReserveEscape THEN First
  ELSE IF nOnField = 0 THEN ReserveEscape
  ELSE S

NewTurnState_OneExtra(S, r, nOnField) ==
  IF r = 6 /\ S # Reroll THEN Reroll
  ELSE IF S = Reroll THEN First
  ELSE IF S = ReserveEscape THEN Reroll
  ELSE IF nOnField = 0 THEN ReserveEscape
  ELSE S

\* lines 73-81
NewTurnState(S, r, nOnField) ==
  IF r = 6 THEN Reroll
  ELSE IF S = Reroll THEN First
  ELSE IF S = ReserveEscape THEN Reroll
  ELSE IF nOnField = 0 THEN ReserveEscape
  ELSE S

\* variant: the turn is kept only in state Reroll
NextPlayerIdx_UnlessReroll(currentPlayerIdx, S) ==
  IF S # Reroll THEN (currentPlayerIdx + 1) % NumPlayers ELSE currentPlayerIdx

\* lines 83-85
NextPlayerIdx(currentPlayerIdx, S) ==
  IF S = First THEN (currentPlayerIdx + 1) % NumPlayers ELSE currentPlayerIdx

\* homePlaces[x]; an index outside the array reads undefined (falsy)
HomePlaces(ps) == [x \in 0 .. 3 |-> ~ \E n \in PieceIdx : ps[n].section = "home" /\ ps[n].index = x]

\* variant: the home lane wraps around
HomePlaceOpen_Wrap(ps, x) == HomePlaces(ps)[x % 4]

HomePlaceOpen(ps, x) == IF x \in DOMAIN HomePlaces(ps) THEN HomePlaces(ps)[x] ELSE FALSE

OwnOnField(ps, cell) == \E n \in PieceIdx : ps[n].section = "field" /\ ps[n].index = cell

Move(n, from, to) == [piece |-> n, from |-> from, to |-> to]

\* variant: the start field is not tested
ReserveMoves_NoCheck(ps, path, r) ==
  LET piecesInReserve == Filter(ps, "reserve")
      startField == path[0]
  IN IF r = 6 /\ Len(piecesInReserve) > 0
     THEN << Move(piecesInReserve[1], ps[piecesInReserve[1]], PiecePosition(startField, "field")) >>
     ELSE <<>>

\* lines 94-109
ReserveMoves(ps, path, r) ==
  LET piecesInReserve == Filter(ps, "reserve")
      startField == path[0]
  IN IF r = 6 /\ Len(piecesInReserve) > 0 /\ ~ OwnOnField(ps, startField)
     THEN << Move(piecesInReserve[1], ps[piecesInReserve[1]], PiecePosition(startField, "field")) >>
     ELSE <<>>

\* variant: the home slot is counted from the last path cell
FieldMove_FromLast(ps, path, r, n) ==
  LET pathLength == Cardinality(DOMAIN path)
      pieceOnPathIdx == FindIndex(path, ps[n].index)
      movedIdx == pieceOnPathIdx + r
      intoHome == movedIdx - (pathLength - 1)
  IN IF movedIdx < pathLength
     THEN (IF ~ OwnOnField(ps, path[movedIdx])
           THEN << Move(n, ps[n], PiecePosition(path[movedIdx], "field")) >>
           ELSE <<>>)
     ELSE (IF HomePlaceOpen(ps, intoHome)
           THEN << Move(n, ps[n], PiecePosition(intoHome, "home")) >>
           ELSE <<>>)

\* lines 117-137, one piece on the field
FieldMove(ps, path, r, n) ==
  LET pathLength == Cardinality(DOMAIN path)
      pieceOnPathIdx == FindIndex(path, ps[n].index)
      movedIdx == pieceOnPathIdx + r
      intoHome == movedIdx - pathLength
  IN IF movedIdx < pathLength
     THEN (IF ~ OwnOnField(ps, path[movedIdx])
           THEN << Move(n, ps[n], PiecePosition(path[movedIdx], "field")) >>
           ELSE <<>>)
     ELSE (IF HomePlaceOpen(ps, intoHome)
           THEN << Move(n, ps[n], PiecePosition(intoHome, "home")) >>
           ELSE <<>>)

\* variant: the home advance does not test whether the slot is taken
HomeMove_NoCheck(ps, r, n) ==
  IF ps[n].index + r \in 0 .. 3
  THEN << Move(n, ps[n], PiecePosition(ps[n].index + r, "home")) >>
  ELSE <<>>

\* lines 141-146, one piece in home
HomeMove(ps, r, n) ==
  IF HomePlaceOpen(ps, ps[n].index + r)
  THEN << Move(n, ps[n], PiecePosition(ps[n].index + r, "home")) >>
  ELSE <<>>

RECURSIVE FlatMap(_, _, _, _, _)
FlatMap(list, k, ps, path, r) ==
  IF k > Len(list) THEN <<>>
  ELSE (IF ps[list[k]].section = "field" THEN FieldMove(ps, path, r, list[k])
        ELSE HomeMove(ps, r, list[k])) \o FlatMap(list, k + 1, ps, path, r)

\* lines 88-147: possibleMoves in the order the code pushes them
PossibleMoves(ps, path, r) ==
  ReserveMoves(ps, path, r)
    \o FlatMap(Filter(ps, "field"), 1, ps, path, r)
    \o FlatMap(Filter(ps, "home"), 1, ps, path, r)

\* lines 174-181: lowest reserve slot not held by a reserve piece
RECURSIVE FreeReserveFrom(_, _)
FreeReserveFrom(ps, x) ==
  IF x > 3 THEN -1
  ELSE IF ~ \E n \in PieceIdx : ps[n].section = "reserve" /\ ps[n].index = x THEN x
  ELSE FreeReserveFrom(ps, x + 1)

\* variant: the highest free reserve slot
FreeReserve_Last(ps) ==
  CHOOSE x \in 0 .. 3 :
    /\ ~ \E n \in PieceIdx : ps[n].section = "reserve" /\ ps[n].index = x
    /\ \A y \in (x + 1) .. 3 : \E n \in PieceIdx : ps[n].section = "reserve" /\ ps[n].index = y

FreeReserve(ps) == FreeReserveFrom(ps, 0)

\* lines 166-170: pieces.findIndex(field piece with the destination's index)
RECURSIVE CollidingFrom(_, _, _)
CollidingFrom(ps, index, n) ==
  IF n > 3 THEN -1
  ELSE IF ps[n].section = "field" /\ ps[n].index = index THEN n
  ELSE CollidingFrom(ps, index, n + 1)

\* variant: the scan does not test the section of the other player's piece
CollidingPieceIdx_AnySection(ps, to) ==
  IF \E n \in PieceIdx : ps[n].index = to.index
  THEN CHOOSE n \in PieceIdx :
         ps[n].index = to.index /\ \A m \in 0 .. (n - 1) : ps[m].index # to.index
  ELSE -1

CollidingPieceIdx(ps, to) == CollidingFrom(ps, to.index, 0)

\* lines 162-186: scan of the other players in list order, first hit only
RECURSIVE Capture(_, _, _, _)
Capture(all, currentPlayer, to, otherPlayer) ==
  IF otherPlayer >= NumPlayers THEN all
  ELSE IF otherPlayer = currentPlayer THEN Capture(all, currentPlayer, to, otherPlayer + 1)
  ELSE LET c == CollidingPieceIdx(all[otherPlayer], to)
       IN IF c # -1
          THEN [all EXCEPT ![otherPlayer][c] = PiecePosition(FreeReserve(all[otherPlayer]), "reserve")]
          ELSE Capture(all, currentPlayer, to, otherPlayer + 1)

\* lines 162-172: the piece the scan hits, if any
RECURSIVE Collision(_, _, _, _)
Collision(all, currentPlayer, to, otherPlayer) ==
  IF otherPlayer >= NumPlayers THEN NoCapture
  ELSE IF otherPlayer = currentPlayer THEN Collision(all, currentPlayer, to, otherPlayer + 1)
  ELSE IF CollidingPieceIdx(all[otherPlayer], to) # -1
       THEN [player |-> otherPlayer, piece |-> CollidingPieceIdx(all[otherPlayer], to)]
       ELSE Collision(all, currentPlayer, to, otherPlayer + 1)

\* variant: the move is applied without the capture scan
ApplyMove_NoCapture(all, currentPlayer, pickedMove) ==
  [all EXCEPT ![currentPlayer][pickedMove.piece] = pickedMove.to]

\* lines 159-186
ApplyMove(all, currentPlayer, pickedMove) ==
  Capture([all EXCEPT ![currentPlayer][pickedMove.piece] = pickedMove.to],
          currentPlayer, pickedMove.to, 0)

\* lines 45-56
RECURSIVE WinnerFrom(_, _)
WinnerFrom(all, p) ==
  IF p >= NumPlayers THEN NoPlayer
  ELSE IF \A n \in PieceIdx : all[p][n].section = "home" THEN p
  ELSE WinnerFrom(all, p + 1)

\* variant: some piece in home instead of every piece
GetWinner_Some(all) ==
  IF \E p \in PlayerIdx : \E n \in PieceIdx : all[p][n].section = "home"
  THEN CHOOSE p \in PlayerIdx :
         /\ \E n \in PieceIdx : all[p][n].section = "home"
         /\ \A q \in 0 .. (p - 1) : ~ \E n \in PieceIdx : all[q][n].section = "home"
  ELSE NoPlayer

GetWinner(all) == WinnerFrom(all, 0)

\* ------------------------------------------------------------ strategies
\* what an array read outside its bounds yields
Undefined == [piece |-> -2]

\* possibleMoves[k], k counted from 0
At(list, k) == IF k \in 0 .. (Len(list) - 1) THEN list[k + 1] ELSE Undefined

\* variant: the random index is rounded instead of floored
RandomIntelligence_Round(possibleMoves, u) ==
  At(possibleMoves, (2 * u * Len(possibleMoves) + RandomGrain) \div (2 * RandomGrain))

\* RandomIntelligence.getNextMove; Math.random() is u / RandomGrain
RandomIntelligence(possibleMoves, u) ==
  At(possibleMoves, (u * Len(possibleMoves)) \div RandomGrain)

\* the comparators' key: paths.get(player).indexOf(a[0].index), negated for
\* the descending order
SortKey(path, move, sign) == sign * FindIndex(path, move.from.index)

\* Array.prototype.sort is stable: an element goes behind those already
\* placed that do not compare greater
RECURSIVE InsertSorted(_, _, _, _)
InsertSorted(sorted, move, path, sign) ==
  IF sorted = <<>> THEN <<move>>
  ELSE IF SortKey(path, Head(sorted), sign) <= SortKey(path, move, sign)
       THEN <<Head(sorted)>> \o InsertSorted(Tail(sorted), move, path, sign)
       ELSE <<move>> \o sorted

RECURSIVE SortFrom(_, _, _, _, _)
SortFrom(list, k, sorted, path, sign) ==
  IF k > Len(list) THEN sorted
  ELSE SortFrom(list, k + 1, InsertSorted(sorted, list[k], path, sign), path, sign)

Sort(list, path, sign) == SortFrom(list, 1, <<>>, path, sign)

\* MoveLaggingFirst.getNextMove, bound to the player whose path is given
MoveLaggingFirst(path, possibleMoves) == At(Sort(possibleMoves, path, 1), 0)

\* MoveFurthestFirst.getNextMove, bound to the player whose path is given
MoveFurthestFirst(path, possibleMoves) == At(Sort(possibleMoves, path, -1), 0)

\* ------------------------------------------------------------------- init
\* forced openings: outcomes of floor(random * 6) and of the strategy.
\* MidgameScript leaves players 0 and 1 with two pieces out of reserve each;
\* EndgameScript brings player 0 to three pieces in home and one in reserve
Roll(d6, choose) == [d6 |-> d6, choose |-> choose]

MidgameScript ==
  << Roll(5, 1), Roll(3, 1),
     Roll(5, 1), Roll(0, 1),
     Roll(5, 1), Roll(0, 1),
     Roll(5, 1), Roll(1, 2) >>

EndgameScript ==
  << Roll(5, 1), Roll(0, 1),
     Roll(0, 1), Roll(0, 1), Roll(0, 1),
     Roll(5, 2), Roll(5, 1), Roll(5, 1), Roll(5, 1), Roll(4, 1),
     Roll(5, 1), Roll(0, 1) >>

Scripts == {<<>>, MidgameScript, EndgameScript}

Init ==
  /\ pieces = [p \in PlayerIdx |-> [n \in PieceIdx |-> PiecePosition(n, "reserve")]]
  /\ turnState = First
  /\ i = 0
  /\ rolled = 0
  /\ picked = NoMove
  /\ captured = NoCapture
  /\ winner = NoPlayer
  /\ hist = <<>>
  /\ forced \in Scripts
  /\ plies = 0
  /\ events = <<>>
  /\ running = FALSE
  /\ timers = {}
  /\ nextMoveTimeout = 0
  /\ inflight = {}
  /\ waitingForInput = <<>>

\* ---------------------------------------------------------------- actions
\* what the last plies did: who rolled what, the turn state before and
\* after, and how many of the roller's pieces were on the field / in reserve
Remember(h, e) == IF Len(h) < 3 THEN Append(h, e) ELSE Append(Tail(h), e)

\* the listeners Game's constructor registers through onRoll
rollCallbacks == <<"dice">>

\* variant: the listeners are told the player whose turn it is by now
RollEvents_TurnPlayer(callbacks, r, currentPlayerIdx, turnIdx) ==
  [k \in 1 .. Len(callbacks) |->
     [type |-> "roll", listener |-> callbacks[k], rolled |-> r, player |-> turnIdx]]

\* lines 90-92: rollCallbacks.forEach(callback => callback(rolled, currentPlayer))
RollEvents(callbacks, r, currentPlayerIdx, turnIdx) ==
  [k \in 1 .. Len(callbacks) |->
     [type |-> "roll", listener |-> callbacks[k], rolled |-> r, player |-> currentPlayerIdx]]

\* variant: the strategy is looked up for the player whose turn it is by now
DecideEvents_TurnPlayer(possibleMoves, r, currentPlayerIdx, turnIdx) ==
  IF Len(possibleMoves) = 0 THEN <<>>
  ELSE << [type |-> "decide", listener |-> "", rolled |-> r, player |-> turnIdx] >>

\* lines 62, 149-157: currentIntelligence.getNextMove, unless the list is empty
DecideEvents(possibleMoves, r, currentPlayerIdx, turnIdx) ==
  IF Len(possibleMoves) = 0 THEN <<>>
  ELSE << [type |-> "decide", listener |-> "", rolled |-> r, player |-> currentPlayerIdx] >>

\* variant: the empty list returns before the turn state is touched
NextMove_EarlyReturn(d6, choose) ==
  LET currentPlayerIdx == i
      r == ThrowD6(d6)
      ps == pieces[currentPlayerIdx]
      path == playerPaths[currentPlayerIdx]
      possibleMoves == PossibleMoves(ps, path, r)
      S == IF Len(possibleMoves) = 0 THEN turnState
           ELSE NewTurnState(turnState, r, Len(Filter(ps, "field")))
  IN /\ rolled' = r
     /\ turnState' = S
     /\ i' = IF Len(possibleMoves) = 0 THEN i ELSE NextPlayerIdx(currentPlayerIdx, S)
     /\ hist' = Remember(hist, [who |-> currentPlayerIdx, roll |-> r,
                                before |-> turnState, after |-> S,
                                onField |-> Len(Filter(ps, "field")),
                                inReserve |-> Len(Filter(ps, "reserve"))])
     /\ events' = RollEvents(rollCallbacks, r, currentPlayerIdx, NextPlayerIdx(currentPlayerIdx, S))
                    \o DecideEvents(possibleMoves, r, currentPlayerIdx,
                                    NextPlayerIdx(currentPlayerIdx, S))
     /\ IF Len(possibleMoves) = 0
        THEN /\ choose = 1
             /\ picked' = NoMove
             /\ captured' = NoCapture
             /\ pieces' = pieces
        ELSE /\ choose \in 1 .. Len(possibleMoves)
             /\ picked' = possibleMoves[choose]
             /\ captured' = Collision(pieces, currentPlayerIdx, possibleMoves[choose].to, 0)
             /\ pieces' = ApplyMove(pieces, currentPlayerIdx, possibleMoves[choose])

\* GameState.nextMove with die outcome d6 and the strategy's choice
NextMove(d6, choose) ==
  LET currentPlayerIdx == i
      r == ThrowD6(d6)
      ps == pieces[currentPlayerIdx]
      path == playerPaths[currentPlayerIdx]
      S == NewTurnState(turnState, r, Len(Filter(ps, "field")))
      possibleMoves == PossibleMoves(ps, path, r)
  IN /\ rolled' = r
     /\ turnState' = S
     /\ i' = NextPlayerIdx(currentPlayerIdx, S)
     /\ hist' = Remember(hist, [who |-> currentPlayerIdx, roll |-> r,
                                before |-> turnState, after |-> S,
                                onField |-> Len(Filter(ps, "field")),
                                inReserve |-> Len(Filter(ps, "reserve"))])
     /\ events' = RollEvents(rollCallbacks, r, currentPlayerIdx, NextPlayerIdx(currentPlayerIdx, S))
                    \o DecideEvents(possibleMoves, r, currentPlayerIdx,
                                    NextPlayerIdx(currentPlayerIdx, S))
     /\ IF Len(possibleMoves) = 0
        THEN /\ choose = 1
             /\ picked' = NoMove
             /\ captured' = NoCapture
             /\ pieces' = pieces
        ELSE /\ choose \in 1 .. Len(possibleMoves)
             /\ picked' = possibleMoves[choose]
             /\ captured' = Collision(pieces, currentPlayerIdx, possibleMoves[choose].to, 0)
             /\ pieces' = ApplyMove(pieces, currentPlayerIdx, possibleMoves[choose])

\* Game.step, die and strategy free
Step ==
  /\ winner = NoPlayer
  /\ forced = <<>>
  /\ plies < MaxPlies
  /\ \E d6 \in 0 .. 5 : \E choose \in 1 .. 4 : NextMove(d6, choose)
  /\ winner' = GetWinner(pieces')
  /\ UNCHANGED forced
  /\ plies' = plies + 1
  /\ UNCHANGED uiVars

\* the forced choice, or the last legal move when the list is shorter
ForcedChoice(d6, choose) ==
  LET n == Len(PossibleMoves(pieces[i], playerPaths[i], ThrowD6(d6)))
  IN IF n = 0 THEN 1 ELSE IF choose > n THEN n ELSE choose

\* Game.step, die and strategy taken from the forced opening
StepForced ==
  /\ winner = NoPlayer
  /\ forced # <<>>
  /\ NextMove(Head(forced).d6, ForcedChoice(Head(forced).d6, Head(forced).choose))
  /\ winner' = GetWinner(pieces')
  /\ forced' = Tail(forced)
  /\ UNCHANGED plies
  /\ UNCHANGED uiVars

Next == Step \/ StepForced

Spec == Init /\ [][Next]_vars

\* GameState.nextMove called by a driver that does not look at the winner
Ply ==
  /\ forced = <<>>
  /\ plies < MaxPlies
  /\ \E d6 \in 0 .. 5 : \E choose \in 1 .. 4 : NextMove(d6, choose)
  /\ UNCHANGED <<winner, forced>>
  /\ plies' = plies + 1
  /\ UNCHANGED uiVars

NextEngine == Ply \/ StepForced

SpecEngine == Init /\ [][NextEngine]_vars

(***************************************************************************)
(* The browser driver: class Game, ManualIntelligence and the pointerdown  *)
(* listener of ui.ts.  Every player's strategy select is set to "manual"   *)
(* and the speed input is positive, so runner re-arms itself through       *)
(* setTimeout.  A task of the event loop (a click, a timer, a call of      *)
(* start or stop) runs to completion together with the promise reactions   *)
(* it queues; a nextMove call that awaits a click stays suspended between  *)
(* tasks.                                                                  *)
(***************************************************************************)
Circle(kind, player, index) == [kind |-> kind, player |-> player, index |-> index]

\* walkableChips, playerReserves and playerHomes
Circles ==
  {Circle("field", NoPlayer, c) : c \in 0 .. (BoardSize - 1)}
    \cup {Circle(k, p, n) : k \in {"reserve", "home"}, p \in PlayerIdx, n \in PieceIdx}

\* the circle ManualIntelligence.getNextMove looks up for a candidate's origin
TargetCircle(player, piece) ==
  IF piece.section = "field"
  THEN Circle("field", NoPlayer, piece.index)
  ELSE Circle(piece.section, player, piece.index)

\* Map.prototype.set: a known key keeps its place and takes the new value
MapSet(map, entry) ==
  IF \E k \in 1 .. Len(map) : map[k].circle = entry.circle
  THEN [k \in 1 .. Len(map) |-> IF map[k].circle = entry.circle THEN entry ELSE map[k]]
  ELSE Append(map, entry)

RECURSIVE RegisterFrom(_, _, _, _, _)
RegisterFrom(map, decision, player, possibleMoves, k) ==
  IF k > Len(possibleMoves)
  THEN map
  ELSE RegisterFrom(MapSet(map, [circle |-> TargetCircle(player, possibleMoves[k].from),
                                 decision |-> decision,
                                 move |-> possibleMoves[k]]),
                    decision, player, possibleMoves, k + 1)

\* ManualIntelligence.getNextMove: one waitingForInput entry per candidate
GetNextMove(map, decision, player, possibleMoves) ==
  RegisterFrom(map, decision, player, possibleMoves, 1)

\* the smallest timer id that is neither pending nor held by nextMoveTimeout
SetTimeout(pending, held) ==
  CHOOSE n \in 1 .. (Cardinality(pending) + 2) :
    /\ n \notin pending \cup {held}
    /\ \A m \in 1 .. (n - 1) : m \in pending \cup {held}

\* the part of the driver's state a resumed nextMove call changes
Snapshot ==
  [pieces |-> pieces, picked |-> picked, captured |-> captured, winner |-> winner,
   inflight |-> inflight, timers |-> timers, nextMoveTimeout |-> nextMoveTimeout]

\* the tail of runner after step: re-arm the timer unless the game is won
Rearm(st) ==
  IF st.winner = NoPlayer
  THEN [st EXCEPT !.timers = st.timers \cup {SetTimeout(st.timers, st.nextMoveTimeout)},
                  !.nextMoveTimeout = SetTimeout(st.timers, st.nextMoveTimeout)]
  ELSE st

\* pieces whose PiecePosition object a resumed move replaces
Replaced(all, player, move, found) ==
  (IF found THEN {<<player, move.piece>>} ELSE {})
    \cup (IF Collision(all, player, move.to, 0) = NoCapture
          THEN {}
          ELSE {<<Collision(all, player, move.to, 0).player,
                  Collision(all, player, move.to, 0).piece>>})

\* a waitingForInput callback: resolve settles the decision's promise once; the
\* suspended nextMove applies the move (findIndex by object identity misses a
\* piece replaced since the roll), then step reads the winner and runner re-arms
Resolve(st, entry) ==
  IF \A call \in st.inflight : call.decision # entry.decision
  THEN st
  ELSE LET call == CHOOSE c \in st.inflight : c.decision = entry.decision
           found == <<call.player, entry.move.piece>> \notin call.gone
           after == IF found
                    THEN ApplyMove(st.pieces, call.player, entry.move)
                    ELSE Capture(st.pieces, call.player, entry.move.to, 0)
           gone == Replaced(st.pieces, call.player, entry.move, found)
       IN Rearm([st EXCEPT
                   !.pieces = after,
                   !.picked = entry.move,
                   !.captured = Collision(st.pieces, call.player, entry.move.to, 0),
                   !.winner = GetWinner(after),
                   !.inflight = {[c EXCEPT !.gone = c.gone \cup gone] :
                                   c \in st.inflight \ {call}}])

RECURSIVE ResolveAll(_, _, _)
ResolveAll(st, called, k) ==
  IF k > Len(called) THEN st ELSE ResolveAll(Resolve(st, called[k]), called, k + 1)

\* the entries whose circle lies inside a player's reserve group (inside), or
\* the other entries, in insertion order
RECURSIVE GroupEntries(_, _, _, _)
GroupEntries(map, player, inside, k) ==
  IF k > Len(map)
  THEN <<>>
  ELSE (IF ((map[k].circle.kind = "reserve") /\ (map[k].circle.player = player)) = inside
        THEN <<map[k]>>
        ELSE <<>>) \o GroupEntries(map, player, inside, k + 1)

\* runner with _running set: step, and nextMove up to its first await when the
\* game has no winner; a ply without candidates finishes within the task
Runner(d6, pending) ==
  IF winner # NoPlayer
  THEN /\ timers' = pending
       /\ UNCHANGED <<pieces, turnState, i, rolled, picked, captured, winner, hist, plies,
                      events, nextMoveTimeout, inflight, waitingForInput>>
  ELSE LET currentPlayerIdx == i
           r == ThrowD6(d6)
           ps == pieces[currentPlayerIdx]
           path == playerPaths[currentPlayerIdx]
           S == NewTurnState(turnState, r, Len(Filter(ps, "field")))
           possibleMoves == PossibleMoves(ps, path, r)
       IN /\ plies < MaxUiPlies
          /\ plies' = plies + 1
          /\ rolled' = r
          /\ turnState' = S
          /\ i' = NextPlayerIdx(currentPlayerIdx, S)
          /\ hist' = Remember(hist, [who |-> currentPlayerIdx, roll |-> r,
                                     before |-> turnState, after |-> S,
                                     onField |-> Len(Filter(ps, "field")),
                                     inReserve |-> Len(Filter(ps, "reserve"))])
          /\ events' = RollEvents(rollCallbacks, r, currentPlayerIdx,
                                  NextPlayerIdx(currentPlayerIdx, S))
                         \o DecideEvents(possibleMoves, r, currentPlayerIdx,
                                         NextPlayerIdx(currentPlayerIdx, S))
          /\ IF Len(possibleMoves) = 0
             THEN /\ picked' = NoMove
                  /\ captured' = NoCapture
                  /\ winner' = GetWinner(pieces)
                  /\ timers' = pending \cup {SetTimeout(pending, nextMoveTimeout)}
                  /\ nextMoveTimeout' = SetTimeout(pending, nextMoveTimeout)
                  /\ UNCHANGED <<pieces, inflight, waitingForInput>>
             ELSE /\ inflight' = inflight \cup {[decision |-> plies + 1,
                                                 player |-> currentPlayerIdx,
                                                 moves |-> possibleMoves,
                                                 gone |-> {}]}
                  /\ waitingForInput' = GetNextMove(waitingForInput, plies + 1,
                                                    currentPlayerIdx, possibleMoves)
                  /\ timers' = pending
                  /\ UNCHANGED <<pieces, picked, captured, winner, nextMoveTimeout>>

\* Game.start on the game in progress, as the play button's listener calls it;
\* a call while _running is set returns at once
Start ==
  /\ forced = <<>>
  /\ winner = NoPlayer
  /\ ~running
  /\ running' = TRUE
  /\ \E d6 \in 0 .. 5 : Runner(d6, timers)
  /\ UNCHANGED forced

\* Game.stop
Stop ==
  /\ forced = <<>>
  /\ running' = FALSE
  /\ timers' = timers \ {nextMoveTimeout}
  /\ nextMoveTimeout' = 0
  /\ UNCHANGED <<pieces, turnState, i, rolled, picked, captured, winner, hist, forced,
                 plies, events, inflight, waitingForInput>>

\* a setTimeout(runner) timer fires
TimerFire ==
  /\ \E id \in timers :
       IF running
       THEN \E d6 \in 0 .. 5 : Runner(d6, timers \ {id})
       ELSE /\ timers' = timers \ {id}
            /\ UNCHANGED <<pieces, turnState, i, rolled, picked, captured, winner, hist,
                           plies, events, nextMoveTimeout, inflight, waitingForInput>>
  /\ UNCHANGED <<running, forced>>

\* the callbacks the pointerdown listener calls for a click on a circle
Called(map, circle) ==
  IF \E k \in 1 .. Len(map) : map[k].circle = circle
  THEN <<map[CHOOSE k \in 1 .. Len(map) : map[k].circle = circle]>>
  ELSE IF circle.kind = "reserve"
       THEN GroupEntries(map, circle.player, TRUE, 1)
       ELSE <<>>

\* the entries the pointerdown listener leaves in waitingForInput
Remaining(map, circle) ==
  IF \E k \in 1 .. Len(map) : map[k].circle = circle
  THEN <<>>
  ELSE IF circle.kind = "reserve"
       THEN GroupEntries(map, circle.player, FALSE, 1)
       ELSE map

\* the pointerdown listener of document.body, for a click on a board circle
Pointerdown(circle) ==
  LET st == ResolveAll(Snapshot, Called(waitingForInput, circle), 1)
  IN /\ forced = <<>>
     /\ waitingForInput' = Remaining(waitingForInput, circle)
     /\ pieces' = st.pieces
     /\ picked' = st.picked
     /\ captured' = st.captured
     /\ winner' = st.winner
     /\ inflight' = st.inflight
     /\ timers' = st.timers
     /\ nextMoveTimeout' = st.nextMoveTimeout
     /\ UNCHANGED <<turnState, i, rolled, hist, forced, plies, events, running>>

Click == \E circle \in Circles : Pointerdown(circle)

NextUi == StepForced \/ Start \/ Stop \/ TimerFire \/ Click

SpecUi == Init /\ [][NextUi]_vars

\* the page as shipped: nothing in ui.ts calls Game.stop
NextPlay == StepForced \/ Start \/ TimerFire \/ Click

SpecPlay == Init /\ [][NextPlay]_vars

\* ----------------------------------------------------------------- claims
\* the last three plies, oldest first (defined when three plies were made)
Ply1 == hist[Len(hist) - 2]

Ply2 == hist[Len(hist) - 1]

Ply3 == hist[Len(hist)]

\* C1: after every ply, also one without a legal move, the acting-player
\* index has advanced by one modulo the number of players exactly if the
\* newly computed turn state is First (Normal); otherwise it is unchanged
C1_TurnAdvance ==
  [][ /\ (turnState' = First) <=> (i' = (i + 1) % NumPlayers)
      /\ (turnState' # First) => (i' = i) ]_vars

\* a ply without a legal move has just passed the turn
C1_Witness ==
  /\ Len(hist) > 0
  /\ picked = NoMove
  /\ turnState = First
  /\ Ply3.who # i

\* C2: the new turn state is Continuing (Reroll) on a six; else Normal after
\* Continuing; else Continuing after Stalled (ReserveEscape); else Stalled if
\* the acting player had no piece on the path; else Normal
C2_Rule(S, r, onPath) ==
  CASE r = 6 -> Reroll
    [] r # 6 /\ S = Reroll -> First
    [] r # 6 /\ S = ReserveEscape -> Reroll
    [] r # 6 /\ S = First /\ onPath = 0 -> ReserveEscape
    [] r # 6 /\ S = First /\ onPath > 0 -> First

C2_NewTurnState ==
  [][ /\ rolled' \in 1 .. 6
      /\ turnState' = C2_Rule(turnState, rolled',
           Cardinality({n \in PieceIdx : pieces[i][n].section = "field"})) ]_vars

\* a player without a piece on the path has just rolled no six in state Normal
C2_Witness ==
  /\ Len(hist) > 0
  /\ Ply3.before = First /\ Ply3.roll # 6 /\ Ply3.onField = 0
  /\ turnState = ReserveEscape

\* C3: a turn that begins in state Normal with no piece on the path, followed
\* by three rolls other than six: the same player makes all three plies, the
\* turn state after them is Stalled, Continuing, Normal, and the next player
\* is to act only after the third
C3_Pre ==
  /\ Len(hist) >= 3
  /\ Ply1.before = First /\ Ply1.onField = 0
  /\ Ply1.roll # 6 /\ Ply2.roll # 6 /\ Ply3.roll # 6

C3_Stall ==
  C3_Pre =>
    /\ Ply2.who = Ply1.who /\ Ply3.who = Ply1.who
    /\ Ply1.after = ReserveEscape /\ Ply2.after = Reroll /\ Ply3.after = First
    /\ turnState = First
    /\ i = (Ply1.who + 1) % NumPlayers

C3_Witness == C3_Pre /\ i # Ply1.who

\* C4: a turn that begins with all four pieces in reserve, with the rolls
\* 6, 6, 3: the same player makes the first, second and third ply and the
\* next player in turn order makes the fourth
C4_Pre ==
  /\ Len(hist) >= 3
  /\ Ply1.before = First /\ Ply1.inReserve = 4
  /\ Ply1.roll = 6 /\ Ply2.roll = 6 /\ Ply3.roll = 3

C4_RollSequence ==
  C4_Pre =>
    /\ Ply2.who = Ply1.who /\ Ply3.who = Ply1.who
    /\ Ply1.after # First /\ Ply2.after # First
    /\ i = (Ply1.who + 1) % NumPlayers

C4_Witness == C4_Pre /\ i # Ply1.who

\* C5: when the chosen move ends in home, no piece of any other player
\* changes position in that ply
C5_NoCaptureOnHome ==
  [][ (picked'.piece # -1 /\ picked'.to.section = "home")
        => \A p \in PlayerIdx \ {i} : pieces'[p] = pieces[p] ]_vars

\* C6: when the chosen move ends on path cell c and another player B has a
\* piece on c, then after the ply the moved piece is on c, B's piece is in
\* reserve at the lowest slot no other piece of B holds, and no other piece
\* of any player has changed position
C6_LowestFree(ps, n, s) ==
  /\ s \in 0 .. 3
  /\ ~ \E m \in PieceIdx \ {n} : ps[m].section = "reserve" /\ ps[m].index = s
  /\ \A t \in 0 .. (s - 1) :
       \E m \in PieceIdx \ {n} : ps[m].section = "reserve" /\ ps[m].index = t

C6_Capture ==
  [][ (picked'.piece # -1 /\ picked'.to.section = "field") =>
        \A B \in PlayerIdx \ {i} : \A n \in PieceIdx :
          (pieces[B][n].section = "field" /\ pieces[B][n].index = picked'.to.index) =>
            /\ pieces'[i][picked'.piece] = PiecePosition(picked'.to.index, "field")
            /\ pieces'[B][n].section = "reserve"
            /\ C6_LowestFree(pieces[B], n, pieces'[B][n].index)
            /\ \A p \in PlayerIdx : \A m \in PieceIdx :
                 (<<p, m>> # <<i, picked'.piece>> /\ <<p, m>> # <<B, n>>)
                   => pieces'[p][m] = pieces[p][m] ]_vars

\* a piece was captured by a move onto the path while its owner had another
\* piece out of reserve
C6_Witness ==
  /\ picked.piece # -1 /\ picked.to.section = "field"
  /\ captured # NoCapture
  /\ pieces[captured.player][captured.piece].section = "reserve"
  /\ \E m \in PieceIdx : pieces[captured.player][m].section # "reserve"

\* C7: for every player and roll the legal moves built by nextMove are
\* exactly those of the three rules: reserve escape, path advance, home
\* advance
C7_MoveSet(ps, path, r) ==
  LET possibleMoves == PossibleMoves(ps, path, r)
  IN {<<possibleMoves[k].piece, possibleMoves[k].to>> : k \in 1 .. Len(possibleMoves)}

C7_PathPos(path, cell) == CHOOSE k \in DOMAIN path : path[k] = cell

C7_InReserve(ps) == {n \in PieceIdx : ps[n].section = "reserve"}

C7_OnPath(ps) == {n \in PieceIdx : ps[n].section = "field"}

C7_InHome(ps) == {n \in PieceIdx : ps[n].section = "home"}

C7_Escape(ps, path, r) ==
  IF r = 6 /\ C7_InReserve(ps) # {} /\ ~ \E n \in C7_OnPath(ps) : ps[n].index = path[0]
  THEN {<<CHOOSE n \in C7_InReserve(ps) : \A m \in C7_InReserve(ps) : n <= m,
          PiecePosition(path[0], "field")>>}
  ELSE {}

C7_PathAdvance(ps, path, r) ==
  LET L == Cardinality(DOMAIN path)
      m(n) == C7_PathPos(path, ps[n].index) + r
  IN {<<n, PiecePosition(path[m(n)], "field")>> :
        n \in {n \in C7_OnPath(ps) :
                 /\ m(n) < L
                 /\ ~ \E o \in C7_OnPath(ps) : ps[o].index = path[m(n)]}}
     \cup
     {<<n, PiecePosition(m(n) - L, "home")>> :
        n \in {n \in C7_OnPath(ps) :
                 /\ m(n) >= L
                 /\ m(n) - L \in 0 .. 3
                 /\ ~ \E o \in C7_InHome(ps) : ps[o].index = m(n) - L}}

C7_HomeAdvance(ps, r) ==
  {<<n, PiecePosition(ps[n].index + r, "home")>> :
     n \in {n \in C7_InHome(ps) :
              /\ ps[n].index + r \in 0 .. 3
              /\ ~ \E o \in C7_InHome(ps) : ps[o].index = ps[n].index + r}}

C7_LegalMoves ==
  \A p \in PlayerIdx : \A r \in 1 .. 6 :
    C7_MoveSet(pieces[p], playerPaths[p], r) =
      C7_Escape(pieces[p], playerPaths[p], r)
        \cup C7_PathAdvance(pieces[p], playerPaths[p], r)
        \cup C7_HomeAdvance(pieces[p], r)

\* some roll gives a player a path advance into home next to a home advance,
\* and another roll is an overshoot for a piece on the path
C7_Witness ==
  \E p \in PlayerIdx : \E r \in 1 .. 6 : \E n, o \in PieceIdx :
    /\ pieces[p][n].section = "field" /\ pieces[p][o].section = "home"
    /\ \E a, b \in C7_MoveSet(pieces[p], playerPaths[p], r) :
         a[1] = n /\ a[2].section = "home" /\ b[1] = o
    /\ \A a \in C7_MoveSet(pieces[p], playerPaths[p], 6) : a[1] # n

\* C8 as stated: a path piece whose advance reaches path position
\* (L-1)+k, k in 0..3, has a legal move into home slot k when no own piece
\* holds that slot, and no legal move when the slot is held
C8_HomeSlot(back) ==
  \A p \in PlayerIdx : \A n \in PieceIdx : \A r \in 1 .. 6 : \A k \in 0 .. 3 :
    LET ps == pieces[p]
        L == Cardinality(DOMAIN playerPaths[p])
        free == ~ \E o \in PieceIdx : ps[o].section = "home" /\ ps[o].index = k
        moves == C7_MoveSet(ps, playerPaths[p], r)
    IN (ps[n].section = "field" /\ C7_PathPos(playerPaths[p], ps[n].index) + r = (L - back) + k)
         => /\ free => <<n, PiecePosition(k, "home")>> \in moves
            /\ ~ free => ~ \E a \in moves : a[1] = n

C8_AsStated == C8_HomeSlot(1)

\* C8 amended: a path piece whose advance reaches path position L+k, k in
\* 0..3 (k+1 beyond the final cell), has a legal move into home slot k when
\* no own piece holds that slot, and no legal move when the slot is held
C8_HomeSlotFromPathEnd == C8_HomeSlot(0)

\* a path piece has one roll into a free home slot and one into a held slot
C8_Witness ==
  \E p \in PlayerIdx : \E n \in PieceIdx : \E r1, r2 \in 1 .. 6 :
    LET ps == pieces[p]
        L == Cardinality(DOMAIN playerPaths[p])
        at(r) == C7_PathPos(playerPaths[p], ps[n].index) + r - L
    IN /\ ps[n].section = "field"
       /\ at(r1) \in 0 .. 3 /\ at(r2) \in 0 .. 3
       /\ \E o \in PieceIdx : ps[o].section = "home" /\ ps[o].index = at(r1)
       /\ ~ \E o \in PieceIdx : ps[o].section = "home" /\ ps[o].index = at(r2)

\* C9: no legal move has a path destination on a cell held by a path piece
\* of the same player, and no two pieces of one player stand on one path cell
C9_OwnCellsDistinct ==
  /\ \A p \in PlayerIdx : \A r \in 1 .. 6 :
       LET possibleMoves == PossibleMoves(pieces[p], playerPaths[p], r)
       IN \A k \in 1 .. Len(possibleMoves) :
            possibleMoves[k].to.section = "field" =>
              ~ \E n \in PieceIdx :
                   pieces[p][n] = PiecePosition(possibleMoves[k].to.index, "field")
  /\ \A p \in PlayerIdx : \A n, m \in PieceIdx :
       (n # m /\ pieces[p][n].section = "field" /\ pieces[p][m].section = "field")
         => pieces[p][n].index # pieces[p][m].index

\* a player holds its start field with a piece in reserve, and has a second
\* path piece whose advance by some roll is blocked by the first
C9_Witness ==
  \E p \in PlayerIdx : \E n, m, o \in PieceIdx : \E r \in 1 .. 5 :
    /\ pieces[p][n] = PiecePosition(playerPaths[p][0], "field")
    /\ pieces[p][o].section = "reserve"
    /\ pieces[p][m].section = "field" /\ m # n
    /\ C7_PathPos(playerPaths[p], pieces[p][n].index) + r
         = C7_PathPos(playerPaths[p], pieces[p][m].index)

\* C10: a winner is reported only for a player with all four pieces in home,
\* none is reported while no player has all four in home, and a reported
\* winner is the first such player in turn order
C10_AllHome(p) == \A n \in PieceIdx : pieces[p][n].section = "home"

C10_Winner ==
  /\ winner # NoPlayer =>
       /\ winner \in PlayerIdx
       /\ C10_AllHome(winner)
       /\ \A q \in PlayerIdx : q < winner => ~ C10_AllHome(q)
  /\ (\A p \in PlayerIdx : ~ C10_AllHome(p)) => winner = NoPlayer
  /\ GetWinner(pieces) = winner

\* a winner is reported
C10_Witness == winner # NoPlayer /\ winner \in PlayerIdx

\* the candidate list nextMove would offer player p on roll r
Offered(p, r) == PossibleMoves(pieces[p], playerPaths[p], r)

ListSet(list) == {list[k] : k \in 1 .. Len(list)}

\* C11: for each built-in strategy and every non-empty candidate list the
\* returned pair is a member of the supplied list
C11_ReturnsMember ==
  \A p \in PlayerIdx : \A r \in 1 .. 6 :
    LET possibleMoves == Offered(p, r)
        members == ListSet(possibleMoves)
    IN possibleMoves # <<>> =>
         /\ MoveLaggingFirst(playerPaths[p], possibleMoves) \in members
         /\ MoveFurthestFirst(playerPaths[p], possibleMoves) \in members
         /\ \A u \in 0 .. (RandomGrain - 1) :
              RandomIntelligence(possibleMoves, u) \in members

\* a list of three candidates on which the two ordering strategies differ
C11_Witness ==
  \E p \in PlayerIdx : \E r \in 1 .. 6 :
    /\ Len(Offered(p, r)) >= 3
    /\ MoveLaggingFirst(playerPaths[p], Offered(p, r))
         # MoveFurthestFirst(playerPaths[p], Offered(p, r))

\* C19: MoveLaggingFirst returns the earliest-listed candidate whose origin
\* has the smallest position in its owner's path, MoveFurthestFirst the
\* earliest-listed with the largest, an origin in reserve or home counting
\* as absent from the path (below every path position) whatever its slot
C19_Position(path, origin) ==
  IF origin.section = "field" THEN C7_PathPos(path, origin.index) ELSE -1

C19_EarliestLeast(list, path, sign) ==
  list[CHOOSE k \in 1 .. Len(list) :
         /\ \A j \in 1 .. Len(list) :
              sign * C19_Position(path, list[k].from) <= sign * C19_Position(path, list[j].from)
         /\ \A j \in 1 .. (k - 1) :
              sign * C19_Position(path, list[j].from) > sign * C19_Position(path, list[k].from)]

C19_OrderByPathPosition ==
  \A p \in PlayerIdx : \A r \in 1 .. 6 :
    LET possibleMoves == Offered(p, r)
    IN possibleMoves # <<>> =>
         /\ MoveLaggingFirst(playerPaths[p], possibleMoves)
              = C19_EarliestLeast(possibleMoves, playerPaths[p], 1)
         /\ MoveFurthestFirst(playerPaths[p], possibleMoves)
              = C19_EarliestLeast(possibleMoves, playerPaths[p], -1)

IsDecide(e) == e.type = "decide"

IsRoll(e) == e.type = "roll"

\* C12: in every ply the acting player's strategy is invoked exactly once
\* when the legal-move list is non-empty and not at all when it is empty,
\* and no other player's strategy is invoked
C12_StrategyOncePerPly ==
  [][ LET decisions == SelectSeq(events', IsDecide)
      IN /\ Offered(i, rolled') # <<>> => Len(decisions) = 1
         /\ Offered(i, rolled') = <<>> => Len(decisions) = 0
         /\ \A k \in 1 .. Len(decisions) : decisions[k].player = i ]_vars

\* a strategy was invoked in a ply that passed the turn on
C12_Witness ==
  /\ Len(SelectSeq(events, IsDecide)) = 1
  /\ picked # NoMove
  /\ SelectSeq(events, IsDecide)[1].player # i

\* C13: in every ply, also one without a legal move, each registered
\* listener is notified exactly once, with the rolled value and the player
\* who rolled (also when the turn has passed on), before the strategy is
\* invoked
C13_RollNotified ==
  [][ /\ \A l \in ListSet(rollCallbacks) :
           \E k \in 1 .. Len(events') :
             /\ events'[k] = [type |-> "roll", listener |-> l, rolled |-> rolled', player |-> i]
             /\ \A j \in 1 .. Len(events') :
                  (IsRoll(events'[j]) /\ events'[j].listener = l) => j = k
      /\ \A j, k \in 1 .. Len(events') :
           (IsRoll(events'[j]) /\ IsDecide(events'[k])) => j < k
      /\ Len(SelectSeq(events', IsRoll)) = Len(rollCallbacks) ]_vars

\* a ply without a legal move has passed the turn on and notified the
\* listener of the player who rolled
C13_Witness ==
  /\ picked = NoMove
  /\ Len(events) = 1
  /\ IsRoll(events[1]) /\ events[1].rolled = rolled
  /\ events[1].player # i

\* C14: when the legal-move list is empty the ply yields the "no move"
\* result, leaves every piece of every player where it was, and still makes
\* the turn-state transition and the turn advance
C14_NoMovePly ==
  [][ Offered(i, rolled') = <<>> =>
        /\ picked' = NoMove
        /\ pieces' = pieces
        /\ turnState' = C2_Rule(turnState, rolled',
             Cardinality({n \in PieceIdx : pieces[i][n].section = "field"}))
        /\ i' = IF turnState' = First THEN (i + 1) % NumPlayers ELSE i ]_vars

\* a ply without a legal move has put a player with pieces in home into the
\* stalled state
C14_Witness ==
  /\ Len(hist) > 0
  /\ picked = NoMove
  /\ Ply3.before = First /\ turnState = ReserveEscape /\ i = Ply3.who
  /\ \E n \in PieceIdx : pieces[i][n].section = "home"

\* C17: no path cell holds more than one piece, counted over all players,
\* and a ply changes the position of at most two pieces: the moved piece of
\* the acting player and at most one piece of one other player
C17_OnCell(all, cell) ==
  {pn \in PlayerIdx \X PieceIdx : all[pn[1]][pn[2]] = PiecePosition(cell, "field")}

C17_Changed == {pn \in PlayerIdx \X PieceIdx : pieces'[pn[1]][pn[2]] # pieces[pn[1]][pn[2]]}

C17_OnePiecePerCell ==
  [][ /\ \A cell \in 0 .. (BoardSize - 1) : Cardinality(C17_OnCell(pieces', cell)) <= 1
      /\ Cardinality(C17_Changed) <= 2
      /\ \A pn \in C17_Changed : pn[1] = i => (picked' # NoMove /\ pn[2] = picked'.piece)
      /\ Cardinality({pn \in C17_Changed : pn[1] # i}) <= 1 ]_vars

\* a ply has moved one piece and sent another home to reserve while three
\* or more pieces stand on the path
C17_Witness ==
  /\ captured # NoCapture
  /\ picked # NoMove
  /\ Cardinality({pn \in PlayerIdx \X PieceIdx : pieces[pn[1]][pn[2]].section = "field"}) >= 3

\* C18: every player has exactly four pieces, every reserve or home piece
\* has a slot in 0..3, and no two reserve pieces and no two home pieces of
\* one player share a slot
C18_SlotsDistinct ==
  \A p \in PlayerIdx :
    /\ DOMAIN pieces[p] = PieceIdx
    /\ \A n \in PieceIdx :
         pieces[p][n].section \in {"reserve", "home"} => pieces[p][n].index \in 0 .. 3
    /\ \A n, m \in PieceIdx :
         (n # m /\ pieces[p][n].section = pieces[p][m].section
            /\ pieces[p][n].section \in {"reserve", "home"})
           => pieces[p][n].index # pieces[p][m].index

\* a captured piece sits in a reserve slot other than the one it started in
\* while its owner has two pieces in home
C18_Witness ==
  \E p \in PlayerIdx : \E n, m, o \in PieceIdx :
    /\ pieces[p][n].section = "reserve" /\ pieces[p][n].index # n
    /\ m # o /\ pieces[p][m].section = "home" /\ pieces[p][o].section = "home"

\* C20: a piece in home stays in home and its slot number never decreases;
\* once a player has all four pieces in home none of them changes position
\* in any later ply, whoever acts
C20_HomeAbsorbing ==
  [][ \A p \in PlayerIdx :
        /\ \A n \in PieceIdx :
             pieces[p][n].section = "home" =>
               /\ pieces'[p][n].section = "home"
               /\ pieces'[p][n].index >= pieces[p][n].index
        /\ (\A n \in PieceIdx : pieces[p][n].section = "home") => pieces'[p] = pieces[p] ]_vars

\* a ply was made by another player after a player had all four pieces in
\* home
C20_Witness ==
  /\ Len(hist) > 0
  /\ \E p \in PlayerIdx : C10_AllHome(p) /\ Ply3.who # p /\ picked # NoMove

\* C15: under any interleaving of start, stop, timer firings and decision
\* resolutions a Game never has two nextMove calls in flight at once
C15_OnePlyInFlight == Cardinality(inflight) <= 1

C16_Pending == {call.decision : call \in inflight}

C16_NoneLeftRegistered ==
  \A k \in 1 .. Len(waitingForInput) : waitingForInput[k].decision \in C16_Pending

C16_EveryCandidateClickable ==
  \A call \in inflight : \A m \in 1 .. Len(call.moves) :
    \E k \in 1 .. Len(waitingForInput) :
      /\ waitingForInput[k].circle = TargetCircle(call.player, call.moves[m].from)
      /\ waitingForInput[k].decision = call.decision
      /\ waitingForInput[k].move = call.moves[m]

\* C16: while a decision is pending, the origin circle of each of its candidates
\* is registered and resolves it with that candidate, and waitingForInput holds
\* no registration of a decision that has resolved
C16_Registrations == C16_NoneLeftRegistered /\ C16_EveryCandidateClickable

====
